---- MODULE Spec2Model ----
(***************************************************************************)
(* Model of demo/lightning/checkpoint/simulated/multiprocessing_train.py:  *)
(* one process per simulated rank runs run_benchmark; the ranks meet only  *)
(* at dist.barrier() and in the checkpoint bucket.                         *)
(*                                                                         *)
(* Python objects are modelled with their identity: a tensor is a record   *)
(* [alloc, key, shape] where alloc names the allocation that created it,   *)
(* and heap[r] gives the content every tensor of rank r currently holds.   *)
(* Dictionaries are functions from keys to tensors, so that two            *)
(* dictionaries can share a tensor or hold distinct tensors of one shape.  *)
(*                                                                         *)
(* What the parent does with the other processes once one of them has     *)
(* raised (mp.spawn, join=True) is outside the model: a rank whose peer    *)
(* has stopped stays where the barrier leaves it.                          *)
(***************************************************************************)
EXTENDS Integers, Sequences, FiniteSets, TLC

VARIABLES args, pc, error, trace, arrived, model, state_dict,
          template_state_dict, heap, operation, i, start_time, times,
          save_checkpoint_times, load_checkpoint_times, bucket, files,
          stdout

vars == <<args, pc, error, trace, arrived, model, state_dict,
          template_state_dict, heap, operation, i, start_time, times,
          save_checkpoint_times, load_checkpoint_times, bucket, files,
          stdout>>

(* ------------------------------ bounds -------------------------------- *)

MaxWorldSize == 2

MaxSampleCount == 3

MaxLayerSize == 2

MaxPaddingSize == 2

(* --------------------------- command line ----------------------------- *)

\* parse_args: every size is an int argparse accepts, negative ones too;
\* --debug is a store_true flag.
ParseArgs ==
    [world_size : 1..MaxWorldSize,
     sample_count : (-1)..MaxSampleCount,
     layer_size : 1..MaxLayerSize,
     padding_size : (-1)..MaxPaddingSize,
     debug : BOOLEAN,
     filepath : {"gs://bucket"}]

\* mp.spawn(run_benchmark, nprocs=world_size): ranks 0 .. world_size-1.
Ranks == 0..(args.world_size - 1)

\* Python's range(n): empty when n <= 0.
Range(n) == 0..(n - 1)

(* ------------------------- tensors and models ------------------------- *)

None == [none |-> TRUE]

EmptyDict == [k \in {} |-> None]

\* A dictionary key: a parameter name, or f'dummy_tensor_{i}'.
ParamKey(name) == [name |-> name, index |-> -1]

DummyKey(n) == [name |-> "dummy_tensor_", index |-> n]

Tensor(alloc, key, shape) == [alloc |-> alloc, key |-> key, shape |-> shape]

\* nn.Linear(size, size): weight of shape (size, size), bias of shape (size,).
Linear(name, size) ==
    [k \in {ParamKey(name \o ".weight"), ParamKey(name \o ".bias")} |->
        IF k = ParamKey(name \o ".weight")
        THEN Tensor("SimpleModel", k, <<size, size>>)
        ELSE Tensor("SimpleModel", k, <<size>>)]

\* SimpleModel.__init__: fc1, fc2 and padding_size dummy tensors of shape
\* (size, size); dummy_tensors is a Python list, here a sequence whose
\* element n+1 is the list's element n.
SimpleModel(size, padding_size) ==
    [type |-> "Module",
     children |-> <<"fc1", "fc2">>,
     parameters |-> Linear("fc1", size) @@ Linear("fc2", size),
     dummy_tensors |-> [n \in 1..(IF padding_size > 0 THEN padding_size ELSE 0)
                          |-> Tensor("SimpleModel", DummyKey(n - 1),
                                     <<size, size>>)]]

\* model.state_dict(): a new dictionary over the model's own parameter tensors.
ModelStateDict(m) == [k \in DOMAIN m.parameters |-> m.parameters[k]]

\* torch.empty_like(tensor): a new tensor of the same shape.
EmptyLike(tensor, alloc) == Tensor(alloc, tensor.key, tensor.shape)

Values(d) == {d[k] : k \in DOMAIN d}

(* --------------------------- debug dumps ------------------------------ *)

\* The attributes an object of each type answers to; any other attribute
\* lookup raises AttributeError.
Attributes(type) ==
    IF type = "Module"
    THEN {"named_children", "children", "named_parameters", "state_dict"}
    ELSE {"write"}

HasAttr(obj, attr) == attr \in Attributes(obj.type)

TextIO(filename) == [type |-> "TextIO", name |-> filename]

\* write_model_structure_to_file(file, model, indent): iterates
\* model.named_children() and writes one entry per child to file.  The
\* result is what was written and the exception raised, if any.
write_model_structure_to_file(file, mdl) ==
    IF ~HasAttr(mdl, "named_children")
    THEN [raised |-> "AttributeError", written |-> <<>>]
    ELSE IF Len(mdl.children) > 0 /\ ~HasAttr(file, "write")
    THEN [raised |-> "AttributeError", written |-> <<>>]
    ELSE [raised |-> "none", written |-> mdl.children]

\* write_full_model(model, filename): opens the file, writes the header,
\* then calls write_model_structure_to_file(model, f), the model first and
\* the file second, and then writes the state dict.
write_full_model(mdl, filename) ==
    LET f == TextIO(filename)
        structure == write_model_structure_to_file(mdl, f)
    IN  IF structure.raised # "none"
        THEN [raised |-> structure.raised,
              content |-> <<"Model Structure:">>]
        ELSE [raised |-> "none",
              content |-> <<"Model Structure:">> \o structure.written
                          \o <<"Model State Dict:">>]

\* write_state_dict_to_file(state_dict, filename): header and the content
\* every tensor of the dictionary holds.
write_state_dict_to_file(d, h) ==
    [raised |-> "none",
     content |-> <<"State Dict:", [k \in DOMAIN d |-> h[d[k]]]>>]

(* ------------------------ run_benchmark pieces ------------------------ *)

\* run_benchmark lines 309-311: model.state_dict() extended with the
\* model's dummy tensors themselves.
RunBenchmarkStateDict(m) ==
    [k \in DOMAIN ModelStateDict(m)
           \cup {DummyKey(n) : n \in Range(Len(m.dummy_tensors))} |->
        IF k \in DOMAIN ModelStateDict(m)
        THEN ModelStateDict(m)[k]
        ELSE m.dummy_tensors[k.index + 1]]

\* Mutant: the template is built from model.state_dict() alone, the dummy
\* tensors are left out.
TemplateStateDictWithoutDummies(m, alloc) ==
    [k \in DOMAIN ModelStateDict(m) |->
        EmptyLike(ModelStateDict(m)[k], alloc)]

\* time_checkpoint_operation lines 271-276: model.state_dict() with every
\* value replaced by empty_like, plus an empty_like of every dummy tensor
\* when the model has dummy_tensors.
TemplateStateDict(m, alloc) ==
    [k \in DOMAIN ModelStateDict(m)
           \cup (IF "dummy_tensors" \in DOMAIN m
                 THEN {DummyKey(n) : n \in Range(Len(m.dummy_tensors))}
                 ELSE {}) |->
        IF k \in DOMAIN ModelStateDict(m)
        THEN EmptyLike(ModelStateDict(m)[k], alloc)
        ELSE EmptyLike(m.dummy_tensors[k.index + 1], alloc)]

\* os.path.join(filepath, f'checkpoints/ckpt_{i}.ckpt')
CheckpointPath(filepath, n) == [filepath |-> filepath, ckpt |-> n]

\* statistics.mean(data): raises StatisticsError on no data; the mean is
\* kept as the exact pair <<sum, count>>.
RECURSIVE Sum(_)
Sum(s) == IF s = <<>> THEN 0 ELSE Head(s).elapsed + Sum(Tail(s))

Mean(data) ==
    IF Len(data) < 1
    THEN [raised |-> "StatisticsError", value |-> <<0, 0>>]
    ELSE [raised |-> "none", value |-> <<Sum(data), Len(data)>>]

\* time.time() on rank r: a clock that advances with every event of the rank.
Time(r) == Len(trace[r])

Event(name, op, n) == [ev |-> name, operation |-> op, i |-> n]

Log(r, e) == trace' = [trace EXCEPT ![r] = Append(@, e)]

\* Mutant: the exception is caught and the rank carries on where it was.
RaiseCaught(r, err) ==
    /\ error' = [error EXCEPT ![r] = err]
    /\ UNCHANGED pc

\* An exception raised in run_benchmark: nothing catches it, the process
\* of the rank ends there.
Raise(r, err) ==
    /\ pc' = [pc EXCEPT ![r] = "failed"]
    /\ error' = [error EXCEPT ![r] = err]

Goto(r, label) ==
    /\ pc' = [pc EXCEPT ![r] = label]
    /\ UNCHANGED error

(* ------------------------------ barrier ------------------------------- *)

\* dist.barrier(): a rank leaves its n-th barrier call only when every rank
\* of the group has made its n-th call.
BarrierOpen(r) == \A q \in Ranks : arrived[q] >= arrived[r]

\* The label a rank waits at inside the barrier call it made at `label`.
Waiting(label) ==
    CASE label = "barrier_321" -> "wait_321"
      [] label = "barrier_279" -> "wait_279"
      [] label = "barrier_288" -> "wait_288"

\* The statement that follows each barrier call.
AfterBarrier(label) ==
    CASE label = "wait_321" -> "time_checkpoint_operation"
      [] label = "wait_279" -> "start_time"
      [] label = "wait_288" -> "end_time"

BarrierCalls == {"barrier_321", "barrier_279", "barrier_288"}

BarrierWaits == {"wait_321", "wait_279", "wait_288"}

(* ------------------------------- state -------------------------------- *)

\* The state of every rank when mp.spawn starts run_benchmark.
Start ==
    /\ pc = [r \in Ranks |-> "setup"]
    /\ error = [r \in Ranks |-> "none"]
    /\ trace = [r \in Ranks |-> <<>>]
    /\ arrived = [r \in Ranks |-> 0]
    /\ model = [r \in Ranks |-> None]
    /\ state_dict = [r \in Ranks |-> EmptyDict]
    /\ template_state_dict = [r \in Ranks |-> EmptyDict]
    /\ heap = [r \in Ranks |-> EmptyDict]
    /\ operation = [r \in Ranks |-> "save"]
    /\ i = [r \in Ranks |-> 0]
    /\ start_time = [r \in Ranks |-> 0]
    /\ times = [r \in Ranks |-> <<>>]
    /\ save_checkpoint_times = [r \in Ranks |-> <<>>]
    /\ load_checkpoint_times = [r \in Ranks |-> <<>>]
    /\ bucket = EmptyDict
    /\ files = EmptyDict
    /\ stdout = [r \in Ranks |-> <<>>]

\* Every world size, sample count and debug flag, for one model: the sizes
\* of the tensors decide no branch of the program.
Init ==
    /\ args \in {a \in ParseArgs : /\ a.layer_size = MaxLayerSize
                                  /\ a.padding_size = MaxPaddingSize}
    /\ Start

\* Every layer size and padding size, for a benchmark of one sample with
\* debug off.
InitShapes ==
    /\ args \in {a \in ParseArgs : a.sample_count = 1 /\ ~a.debug}
    /\ Start

(* ------------------------------ actions ------------------------------- *)

\* run_benchmark line 298: setup(rank, world_size).
Setup(r) ==
    /\ pc[r] = "setup"
    /\ Goto(r, "model")
    /\ Log(r, Event("init_process_group", "none", -1))
    /\ UNCHANGED <<args, arrived, model, state_dict, template_state_dict,
                   heap, operation, i, start_time, times,
                   save_checkpoint_times, load_checkpoint_times, bucket,
                   files, stdout>>

\* run_benchmark lines 300-304: the model is built, its tensors hold their
\* initial values; on rank 0 with --debug the model is dumped.
BuildModel(r) ==
    /\ pc[r] = "model"
    /\ LET m == SimpleModel(args.layer_size, args.padding_size)
           tensors == Values(m.parameters) \cup Values(m.dummy_tensors)
           dump == write_full_model(m, "initial_model_state.txt")
       IN  /\ model' = [model EXCEPT ![r] = m]
           /\ heap' = [heap EXCEPT ![r] = [t \in tensors |-> "initial"]]
           /\ IF r = 0 /\ args.debug
              THEN /\ files' = ("initial_model_state.txt" :> dump.content)
                               @@ files
                   /\ trace' = [trace EXCEPT ![r] =
                                 @ \o <<Event("SimpleModel", "none", -1),
                                        Event("write_full_model", "none",
                                              -1)>>]
                   /\ IF dump.raised # "none"
                      THEN Raise(r, dump.raised)
                      ELSE Goto(r, "state_dict")
              ELSE /\ Goto(r, "state_dict")
                   /\ Log(r, Event("SimpleModel", "none", -1))
                   /\ UNCHANGED files
    /\ UNCHANGED <<args, arrived, state_dict, template_state_dict,
                   operation, i, start_time, times, save_checkpoint_times,
                   load_checkpoint_times, bucket, stdout>>

\* Mutant: only rank 0 calls the barrier of line 321.
AfterStateDictRankZeroOnly(r) ==
    IF r = 0 THEN "barrier_321" ELSE "time_checkpoint_operation"

\* line 321: every rank calls dist.barrier() before the timed loops.
AfterStateDict(r) == "barrier_321"

\* run_benchmark lines 305-319: the strategy, the state mapping and, on
\* rank 0 with --debug, its dump.
BuildStateDict(r) ==
    /\ pc[r] = "state_dict"
    /\ LET d == RunBenchmarkStateDict(model[r])
       IN  /\ state_dict' = [state_dict EXCEPT ![r] = d]
           /\ IF r = 0 /\ args.debug
              THEN files' = ("state_dict_before_save.txt" :>
                               write_state_dict_to_file(d, heap[r]).content)
                            @@ files
              ELSE UNCHANGED files
    /\ Goto(r, AfterStateDict(r))
    /\ Log(r, Event("state_dict", "none", -1))
    /\ UNCHANGED <<args, arrived, model, template_state_dict, heap,
                   operation, i, start_time, times, save_checkpoint_times,
                   load_checkpoint_times, bucket, stdout>>

\* A call of dist.barrier() (lines 321, 279, 288): the rank arrives.
BarrierEnter(r) ==
    /\ pc[r] \in BarrierCalls
    /\ arrived' = [arrived EXCEPT ![r] = @ + 1]
    /\ Goto(r, Waiting(pc[r]))
    /\ Log(r, Event("barrier", IF pc[r] = "barrier_321" THEN "none"
                               ELSE operation[r],
                    IF pc[r] = "barrier_321" THEN -1 ELSE i[r]))
    /\ UNCHANGED <<args, model, state_dict, template_state_dict, heap,
                   operation, i, start_time, times, save_checkpoint_times,
                   load_checkpoint_times, bucket, files, stdout>>

\* dist.barrier() returns once every rank has arrived.
BarrierExit(r) ==
    /\ pc[r] \in BarrierWaits
    /\ BarrierOpen(r)
    /\ Goto(r, AfterBarrier(pc[r]))
    /\ UNCHANGED <<args, trace, arrived, model, state_dict,
                   template_state_dict, heap, operation, i, start_time,
                   times, save_checkpoint_times, load_checkpoint_times,
                   bucket, files, stdout>>

\* Mutant: the loop body starts at the timer, without the barrier of
\* line 279.
LoopNextWithoutBarrier(n) ==
    IF n < args.sample_count THEN "start_time" ELSE "return"

\* Mutant: the loop runs one iteration too many.
LoopNextOneMore(n) ==
    IF n <= args.sample_count THEN "barrier_279" ELSE "return"

\* for i in range(sample_count): the next iteration, or the return.
LoopNext(n) == IF n < args.sample_count THEN "barrier_279" ELSE "return"

\* time_checkpoint_operation lines 270-277: the sample list, the template
\* mapping of fresh uninitialised tensors, and the loop's first test.
TimeCheckpointOperation(r) ==
    /\ pc[r] = "time_checkpoint_operation"
    /\ LET template == TemplateStateDict(model[r],
                                         "template_" \o operation[r])
       IN  /\ template_state_dict' =
                  [template_state_dict EXCEPT ![r] = template]
           /\ heap' = [heap EXCEPT ![r] =
                         [t \in Values(template) |-> "empty"] @@ @]
    /\ times' = [times EXCEPT ![r] = <<>>]
    /\ i' = [i EXCEPT ![r] = 0]
    /\ Goto(r, LoopNext(0))
    /\ UNCHANGED <<args, trace, arrived, model, state_dict, operation,
                   start_time, save_checkpoint_times, load_checkpoint_times,
                   bucket, files, stdout>>

\* line 280: start_time = time.time().
StartTime(r) ==
    /\ pc[r] = "start_time"
    /\ start_time' = [start_time EXCEPT ![r] = Time(r)]
    /\ Goto(r, "operation")
    /\ Log(r, Event("start_time", operation[r], i[r]))
    /\ UNCHANGED <<args, arrived, model, state_dict, template_state_dict,
                   heap, operation, i, times, save_checkpoint_times,
                   load_checkpoint_times, bucket, files, stdout>>

\* The tensors dist_cp.load overwrites: the values of the mapping it is
\* given (BenchmarkStrategy.load_checkpoint, lines 209-211).
LoadCheckpoint(r, checkpoint_path, initial_state_dict) ==
    [t \in Values(initial_state_dict) |->
        IF checkpoint_path \in DOMAIN bucket
           /\ bucket[checkpoint_path] = Ranks
        THEN "checkpoint"
        ELSE "incomplete"] @@ heap[r]

\* dist_cp.save of rank r under checkpoint_path
\* (BenchmarkStrategy.save_checkpoint, lines 180-182).
SaveCheckpoint(r, checkpoint_path) ==
    (checkpoint_path :>
        ((IF checkpoint_path \in DOMAIN bucket
          THEN bucket[checkpoint_path] ELSE {}) \cup {r})) @@ bucket

\* Mutant: every rank names its own checkpoint.
checkpoint_path_of_rank(r) == CheckpointPath(args.filepath, i[r] + r)

\* line 278: the path of the rank's current iteration.
checkpoint_path(r) == CheckpointPath(args.filepath, i[r])

\* lines 281-287: the save of the state mapping, or the load into
\* the template mapping, at the path of the iteration.
Operation(r) ==
    /\ pc[r] = "operation"
    /\ IF operation[r] = "save"
       THEN /\ bucket' = SaveCheckpoint(r, checkpoint_path(r))
            /\ UNCHANGED heap
       ELSE /\ heap' = [heap EXCEPT ![r] =
                          LoadCheckpoint(r, checkpoint_path(r),
                                         template_state_dict[r])]
            /\ UNCHANGED bucket
    /\ Goto(r, "barrier_288")
    /\ Log(r, Event(operation[r], operation[r], i[r]))
    /\ UNCHANGED <<args, arrived, model, state_dict, template_state_dict,
                   operation, i, start_time, times, save_checkpoint_times,
                   load_checkpoint_times, files, stdout>>

\* lines 289-291 and the loop's next test: the sample is appended.  Next to
\* the elapsed time the sample carries the operation and the iteration that
\* produced it (history only: nothing reads them).
EndTime(r) ==
    /\ pc[r] = "end_time"
    /\ times' = [times EXCEPT ![r] =
                   Append(@, [elapsed |-> Time(r) - start_time[r],
                              operation |-> operation[r],
                              i |-> i[r]])]
    /\ i' = [i EXCEPT ![r] = @ + 1]
    /\ Goto(r, LoopNext(i[r] + 1))
    /\ Log(r, Event("end_time", operation[r], i[r]))
    /\ UNCHANGED <<args, arrived, model, state_dict, template_state_dict,
                   heap, operation, start_time, save_checkpoint_times,
                   load_checkpoint_times, bucket, files, stdout>>

\* line 292 and the assignments of lines 322 and 327: the list is returned
\* to run_benchmark, which calls again for 'load' after 'save'.
Return(r) ==
    /\ pc[r] = "return"
    /\ IF operation[r] = "save"
       THEN /\ save_checkpoint_times' =
                   [save_checkpoint_times EXCEPT ![r] = <<times[r]>>]
            /\ operation' = [operation EXCEPT ![r] = "load"]
            /\ Goto(r, "time_checkpoint_operation")
            /\ UNCHANGED load_checkpoint_times
       ELSE /\ load_checkpoint_times' =
                   [load_checkpoint_times EXCEPT ![r] = <<times[r]>>]
            /\ Goto(r, "report")
            /\ UNCHANGED <<save_checkpoint_times, operation>>
    /\ Log(r, Event("return", operation[r], -1))
    /\ UNCHANGED <<args, arrived, model, state_dict, template_state_dict,
                   heap, i, start_time, times, bucket, files, stdout>>

\* Mutant: every rank reports.
ReportsOnEveryRank(r) == TRUE

\* The rank that reports (line 332).
Reports(r) == r = 0

\* lines 332-351: rank 0 prints the two means and, with --debug, dumps the
\* state mapping; the other ranks go on to cleanup.
Report(r) ==
    /\ pc[r] = "report"
    /\ LET save_mean == Mean(save_checkpoint_times[r][1])
           load_mean == Mean(load_checkpoint_times[r][1])
       IN  IF ~Reports(r)
           THEN /\ Goto(r, "cleanup")
                /\ UNCHANGED <<trace, stdout, files>>
           ELSE IF save_mean.raised # "none"
           THEN /\ Raise(r, save_mean.raised)
                /\ UNCHANGED <<trace, stdout, files>>
           ELSE IF load_mean.raised # "none"
           THEN /\ Raise(r, load_mean.raised)
                /\ UNCHANGED <<trace, stdout, files>>
           ELSE /\ Goto(r, "cleanup")
                /\ stdout' = [stdout EXCEPT ![r] =
                                Append(@, [save |-> save_mean.value,
                                           load |-> load_mean.value])]
                /\ Log(r, Event("report", "none", -1))
                /\ IF args.debug
                   THEN files' = ("state_dict_after_load.txt" :>
                                    write_state_dict_to_file(
                                        state_dict[r], heap[r]).content)
                                 @@ files
                   ELSE UNCHANGED files
    /\ UNCHANGED <<args, arrived, model, state_dict, template_state_dict,
                   heap, operation, i, start_time, times,
                   save_checkpoint_times, load_checkpoint_times, bucket>>

\* line 353: cleanup(), dist.destroy_process_group().
Cleanup(r) ==
    /\ pc[r] = "cleanup"
    /\ Goto(r, "done")
    /\ Log(r, Event("destroy_process_group", "none", -1))
    /\ UNCHANGED <<args, arrived, model, state_dict, template_state_dict,
                   heap, operation, i, start_time, times,
                   save_checkpoint_times, load_checkpoint_times, bucket,
                   files, stdout>>

\* The external calls the benchmark makes in its timed loop: a barrier
\* call (before or after the rank is counted as arrived), a save, a load.
ExternalCalls == BarrierCalls \cup BarrierWaits \cup {"operation"}

\* An external call raises (network error, shape mismatch, ...).
ExternalFailure(r) ==
    /\ pc[r] \in ExternalCalls
    /\ Raise(r, "external")
    /\ UNCHANGED <<args, trace, arrived, model, state_dict,
                   template_state_dict, heap, operation, i, start_time,
                   times, save_checkpoint_times, load_checkpoint_times,
                   bucket, files, stdout>>

Next ==
    \/ \E r \in Ranks : Setup(r)
    \/ \E r \in Ranks : BuildModel(r)
    \/ \E r \in Ranks : BuildStateDict(r)
    \/ \E r \in Ranks : BarrierEnter(r)
    \/ \E r \in Ranks : BarrierExit(r)
    \/ \E r \in Ranks : TimeCheckpointOperation(r)
    \/ \E r \in Ranks : StartTime(r)
    \/ \E r \in Ranks : Operation(r)
    \/ \E r \in Ranks : EndTime(r)
    \/ \E r \in Ranks : Return(r)
    \/ \E r \in Ranks : Report(r)
    \/ \E r \in Ranks : Cleanup(r)
    \/ \E r \in Ranks : ExternalFailure(r)

Spec == Init /\ [][Next]_vars

SpecShapes == InitShapes /\ [][Next]_vars

\* A step of the process of rank r, no external call failing.
Run(r) ==
    /\ r \in Ranks
    /\ \/ Setup(r)
       \/ BuildModel(r)
       \/ BuildStateDict(r)
       \/ BarrierEnter(r)
       \/ BarrierExit(r)
       \/ TimeCheckpointOperation(r)
       \/ StartTime(r)
       \/ Operation(r)
       \/ EndTime(r)
       \/ Return(r)
       \/ Report(r)
       \/ Cleanup(r)

\* Every rank is an operating-system process of its own (mp.spawn): a
\* process that can run does run.  Nothing obliges an external call to fail.
FairSpec == Spec /\ \A r \in 0..(MaxWorldSize - 1) : WF_vars(Run(r))

(* ------------------------- history operators -------------------------- *)

Has(r, e) == \E k \in DOMAIN trace[r] : trace[r][k] = e

Last(r) == trace[r][Len(trace[r])]

IsPrefix(s, t) ==
    /\ Len(s) <= Len(t)
    /\ \A k \in DOMAIN s : s[k] = t[k]

NoExternalFailure == \A r \in Ranks : error[r] # "external"

AllDone == \A r \in Ranks : pc[r] = "done"

\* A step of the program itself, no external call failing.
Progress == \E r \in Ranks : Run(r)

(* ------------------------------- claims ------------------------------- *)

\* C1: in every iteration of time_checkpoint_operation, on every rank, the
\* events are barrier, start time, save or load, barrier, end time, in this
\* order; a rank that has just recorded the start time of iteration n finds
\* every rank arrived at that iteration's first barrier, and a rank that
\* has just recorded the end time of iteration n (and appended the sample)
\* finds that every rank has completed the operation of iteration n.
C1_BarrierStartOperationBarrierEnd ==
    \A r \in Ranks :
        /\ \A k \in DOMAIN trace[r] :
              LET e == trace[r][k]
                  barrier == Event("barrier", e.operation, e.i)
              IN  /\ e.ev = "start_time" =>
                        k > 1 /\ trace[r][k - 1] = barrier
                  /\ e.ev \in {"save", "load"} =>
                        /\ k > 2
                        /\ trace[r][k - 1] =
                               Event("start_time", e.operation, e.i)
                  /\ e.ev = "end_time" =>
                        /\ k > 4
                        /\ trace[r][k - 1] = barrier
                        /\ trace[r][k - 2] =
                               Event(e.operation, e.operation, e.i)
                        /\ trace[r][k - 3] =
                               Event("start_time", e.operation, e.i)
                        /\ trace[r][k - 4] = barrier
        /\ (trace[r] # <<>> /\ Last(r).ev = "start_time") =>
              \A q \in Ranks :
                  Has(q, Event("barrier", Last(r).operation, Last(r).i))
        /\ (trace[r] # <<>> /\ Last(r).ev = "end_time") =>
              /\ times[r] # <<>>
              /\ times[r][Len(times[r])].i = Last(r).i
              /\ \A q \in Ranks :
                    Has(q, Event(Last(r).operation, Last(r).operation,
                                 Last(r).i))
        /\ \A k \in DOMAIN times[r] :
              Has(r, Event("end_time", times[r][k].operation, times[r][k].i))

\* C1 witness: on two ranks, a rank has recorded the end time of the second
\* load iteration.
C1_Witness ==
    /\ args.world_size >= 2
    /\ \E r \in Ranks :
          /\ trace[r] # <<>>
          /\ Last(r) = Event("end_time", "load", 1)

\* The events of a rank that the fixed sequence of C2 names.
RECURSIVE Stages(_)
Stages(t) ==
    IF t = <<>> THEN <<>>
    ELSE IF Head(t).ev \in {"init_process_group", "SimpleModel", "save",
                            "load", "report", "destroy_process_group"}
    THEN <<Head(t).ev>> \o Stages(Tail(t))
    ELSE Stages(Tail(t))

Repeat(x, n) == [k \in 1..(IF n > 0 THEN n ELSE 0) |-> x]

\* The fixed sequence of rank r.
FixedSequence(r) ==
    <<"init_process_group", "SimpleModel">>
    \o Repeat("save", args.sample_count)
    \o Repeat("load", args.sample_count)
    \o (IF r = 0 THEN <<"report">> ELSE <<>>)
    \o <<"destroy_process_group">>

\* C2: what a rank has done so far is always a beginning of the one fixed
\* sequence setup, model, sample_count saves, sample_count loads,
\* statistics (rank 0 only), teardown; statistics are reported by rank 0
\* only and only once it holds both sample lists; a rank is finished exactly
\* when it has run the whole sequence, teardown last.
C2_FixedSequence ==
    \A r \in Ranks :
        /\ IsPrefix(Stages(trace[r]), FixedSequence(r))
        /\ stdout[r] # <<>> =>
              /\ r = 0
              /\ save_checkpoint_times[r] # <<>>
              /\ load_checkpoint_times[r] # <<>>
        /\ pc[r] = "done" <=>
              (trace[r] # <<>> /\ Last(r).ev = "destroy_process_group")
        /\ pc[r] = "done" => Stages(trace[r]) = FixedSequence(r)

\* C2 witness: with two samples every rank of a two-rank group has torn
\* down, rank 0 after reporting.
C2_Witness ==
    /\ args.world_size = 2
    /\ args.sample_count = 2
    /\ AllDone
    /\ Len(stdout[0]) = 1

\* C3: the debug flag only adds output: whenever rank 0 has run
\* write_full_model it has raised nothing of its own, and
\* initial_model_state.txt holds the model structure and the state dict.
C3_DebugOnlyAddsOutput ==
    \A r \in Ranks :
        Has(r, Event("write_full_model", "none", -1)) =>
            /\ error[r] \in {"none", "external"}
            /\ "initial_model_state.txt" \in DOMAIN files
            /\ \E k \in DOMAIN files["initial_model_state.txt"] :
                  files["initial_model_state.txt"][k] = "Model State Dict:"

\* The tensors of rank r that a load has overwritten.
Loaded(r) ==
    {t \in DOMAIN heap[r] : heap[r][t] \in {"checkpoint", "incomplete"}}

\* C4: the tensors a load has overwritten are tensors of the state mapping
\* that run_benchmark saved and dumps after loading (the model's tensors),
\* and once a rank holds its list of load samples that mapping holds what
\* was loaded.
C4_LoadUpdatesStateDict ==
    \A r \in Ranks :
        /\ Loaded(r) \subseteq Values(state_dict[r])
        /\ (load_checkpoint_times[r] # <<>> /\ args.sample_count >= 1) =>
              \A k \in DOMAIN state_dict[r] :
                  heap[r][state_dict[r][k]] = "checkpoint"

\* The key set of both mappings: the parameter names of the two linear
\* layers and dummy_tensor_0 .. dummy_tensor_{padding_size-1}.
ExpectedKeys ==
    {ParamKey("fc1.weight"), ParamKey("fc1.bias"),
     ParamKey("fc2.weight"), ParamKey("fc2.bias")}
    \cup {DummyKey(n) : n \in Range(args.padding_size)}

\* C5: once a rank has built its template mapping, the template has the
\* key set of the state mapping passed to save, that key set is the
\* parameter names plus dummy_tensor_0 .. dummy_tensor_{padding_size-1},
\* and under every key both entries have the same shape.
C5_TemplateMatchesStateDict ==
    \A r \in Ranks :
        template_state_dict[r] # EmptyDict =>
            /\ DOMAIN template_state_dict[r] = DOMAIN state_dict[r]
            /\ DOMAIN state_dict[r] = ExpectedKeys
            /\ \A k \in DOMAIN state_dict[r] :
                  template_state_dict[r][k].shape = state_dict[r][k].shape

\* C5 witness: a load is about to read into the template of a model with
\* layer size 2 and two dummy tensors.
C5_Witness ==
    /\ args.layer_size = 2
    /\ args.padding_size = 2
    /\ args.world_size = 2
    /\ \E r \in Ranks :
          /\ pc[r] = "operation"
          /\ operation[r] = "load"
          /\ Cardinality(DOMAIN template_state_dict[r]) = 6

\* What C6 says of a rank on which an external call has failed, in one
\* state: it is stopped, it holds no sample of the iteration that failed,
\* it has reported nothing and has not torn down.
C6_Stopped(r) ==
    /\ pc[r] = "failed"
    /\ \A k \in DOMAIN times[r] : times[r][k].i < i[r]
    /\ stdout[r] = <<>>
    /\ ~Has(r, Event("report", "none", -1))
    /\ ~Has(r, Event("destroy_process_group", "none", -1))

\* C6: a failure of an external save, load or barrier call on a rank
\* propagates uncaught: from the failure on the rank is stopped and none of
\* its events, barrier arrivals, samples, tensors, output or saves changes
\* (no retry, no further barrier, save or load, no statistics, no teardown).
C6_FailurePropagates ==
    /\ [](\A r \in Ranks : error[r] = "external" => C6_Stopped(r))
    /\ [][\A r \in Ranks :
             error'[r] = "external" =>
                /\ pc'[r] = "failed"
                /\ trace'[r] = trace[r]
                /\ arrived'[r] = arrived[r]
                /\ times'[r] = times[r]
                /\ heap'[r] = heap[r]
                /\ stdout'[r] = stdout[r]
                /\ error[r] = "external" =>
                      \A path \in DOMAIN bucket' :
                          r \in bucket'[path] =>
                              /\ path \in DOMAIN bucket
                              /\ r \in bucket[path]]_vars

\* C6 witness: a load has failed on one rank of two in its second
\* iteration, after the first sample was taken.
C6_Witness ==
    /\ args.world_size = 2
    /\ \E r \in Ranks :
          /\ error[r] = "external"
          /\ operation[r] = "load"
          /\ i[r] = 1
          /\ Last(r) = Event("start_time", "load", 1)
          /\ Len(times[r]) = 1

\* The lists time_checkpoint_operation has returned on rank r.
Returned(r) ==
    {save_checkpoint_times[r][k] : k \in DOMAIN save_checkpoint_times[r]}
    \cup
    {load_checkpoint_times[r][k] : k \in DOMAIN load_checkpoint_times[r]}

\* C7 as stated: every list time_checkpoint_operation returns holds exactly
\* sample_count samples.
C7_ExactlySampleCountSamples ==
    \A r \in Ranks : \A list \in Returned(r) : Len(list) = args.sample_count

\* C7 as amended: every list time_checkpoint_operation returns holds
\* exactly max(sample_count, 0) samples, the k-th of them appended by
\* iteration k-1; the save list holds samples of saves only and the load
\* list samples of loads only; what rank 0 reports are the means of these
\* two lists, and no other rank reports.
C7_MaxSampleCountZeroSamples ==
    \A r \in Ranks :
        /\ \A list \in Returned(r) :
              /\ Len(list) = (IF args.sample_count > 0
                              THEN args.sample_count ELSE 0)
              /\ \A k \in DOMAIN list : list[k].i = k - 1
        /\ \A k \in DOMAIN save_checkpoint_times[r] :
              \A n \in DOMAIN save_checkpoint_times[r][k] :
                  save_checkpoint_times[r][k][n].operation = "save"
        /\ \A k \in DOMAIN load_checkpoint_times[r] :
              \A n \in DOMAIN load_checkpoint_times[r][k] :
                  load_checkpoint_times[r][k][n].operation = "load"
        /\ stdout[r] # <<>> =>
              /\ r = 0
              /\ stdout[r] =
                   <<[save |-> Mean(save_checkpoint_times[r][1]).value,
                      load |-> Mean(load_checkpoint_times[r][1]).value]>>
              /\ stdout[r][1].save[2] = args.sample_count
              /\ stdout[r][1].load[2] = args.sample_count

\* C7 witness: rank 0 of two has reported the means of two save samples and
\* two load samples.
C7_Witness ==
    /\ args.world_size = 2
    /\ stdout[0] # <<>>
    /\ Len(save_checkpoint_times[0][1]) = 2
    /\ Len(load_checkpoint_times[0][1]) = 2

\* The paths of the iterations of one call of time_checkpoint_operation.
IterationPaths ==
    {CheckpointPath(args.filepath, n) : n \in Range(args.sample_count)}

\* C8: a rank that has started a load finds every iteration's checkpoint
\* written by every rank; every load has read a checkpoint that all ranks
\* had completely written; the paths written are the iterations' paths,
\* one per iteration.
C8_LoadReadsCompleteCheckpoint ==
    /\ \A r \in Ranks :
          /\ Has(r, Event("start_time", "load", 0)) =>
                \A path \in IterationPaths :
                    /\ path \in DOMAIN bucket
                    /\ bucket[path] = Ranks
          /\ \A t \in DOMAIN heap[r] : heap[r][t] # "incomplete"
    /\ DOMAIN bucket \subseteq IterationPaths
    /\ \A n, m \in Range(args.sample_count) :
          CheckpointPath(args.filepath, n) = CheckpointPath(args.filepath, m)
              => n = m
    /\ \A r \in Ranks :
          Cardinality({path \in DOMAIN bucket : r \in bucket[path]})
              = Cardinality({k \in DOMAIN trace[r] : trace[r][k].ev = "save"})

\* C8 witness: on two ranks a rank has loaded the checkpoint of the second
\* iteration.
C8_Witness ==
    /\ args.world_size = 2
    /\ \E r \in Ranks :
          /\ trace[r] # <<>>
          /\ Last(r) = Event("load", "load", 1)
          /\ \E t \in DOMAIN heap[r] : heap[r][t] = "checkpoint"

\* The number of destroy_process_group calls of rank r.
Teardowns(r) ==
    Cardinality({k \in DOMAIN trace[r] :
                    trace[r][k].ev = "destroy_process_group"})

\* What C9 says of one state: a rank never issues more than
\* 1 + 4 * sample_count barrier calls and has issued exactly that many when
\* it is finished, after exactly one teardown; and as long as some rank is
\* not finished some rank can take a step.
C9_BarrierCount ==
    /\ \A r \in Ranks :
          /\ arrived[r] <= 1 + 4 * args.sample_count
          /\ error[r] = "none"
          /\ pc[r] = "done" =>
                /\ arrived[r] = 1 + 4 * args.sample_count
                /\ Teardowns(r) = 1
          /\ pc[r] # "done" => Teardowns(r) = 0
    /\ AllDone \/ ENABLED Progress

C9_Applies == ~args.debug /\ args.sample_count >= 1 /\ NoExternalFailure

\* C9: with debug off, sample_count >= 1 and no external call failing,
\* every rank issues the same number of barrier calls, 1 + 4 * sample_count,
\* no rank is left waiting at a barrier, and every rank eventually reaches
\* teardown, exactly once.
C9_NoDeadlock ==
    /\ [](C9_Applies => C9_BarrierCount)
    /\ <>(AllDone \/ ~C9_Applies)

\* C9 witness: with two samples every rank of a two-rank group is
\* finished with debug off and nothing failed.
C9_Witness ==
    /\ ~args.debug
    /\ args.sample_count = 2
    /\ args.world_size = 2
    /\ NoExternalFailure
    /\ AllDone
    /\ \A r \in Ranks : arrived[r] = 9

\* C10: when sample_count <= 0 and no external call fails, no save, load or
\* per-iteration barrier happens and both lists are empty; rank 0 does not
\* report and does not tear down, and when it is stopped it is by the
\* StatisticsError of the mean of an empty list; every other rank reports
\* nothing and reaches teardown: some rank can take a step until rank 0 is
\* stopped and all others are finished.
C10_EmptySampleLists ==
    (args.sample_count <= 0 /\ NoExternalFailure) =>
        /\ \A r \in Ranks :
              /\ arrived[r] <= 1
              /\ \A k \in DOMAIN trace[r] :
                    trace[r][k].ev \notin {"save", "load", "start_time",
                                           "end_time"}
              /\ \A list \in Returned(r) : list = <<>>
              /\ stdout[r] = <<>>
        /\ pc[0] \notin {"cleanup", "done"}
        /\ pc[0] = "failed" => error[0] = "StatisticsError"
        /\ \A r \in Ranks \ {0} : error[r] = "none"
        /\ \/ pc[0] = "failed" /\ \A r \in Ranks \ {0} : pc[r] = "done"
           \/ ENABLED Progress

\* C10 with debug off, where the claim holds.
C10_EmptySampleListsDebugOff == ~args.debug => C10_EmptySampleLists

\* The state C10 describes: rank 0 stopped by the StatisticsError, the
\* other rank finished.
C10_Reached ==
    /\ args.sample_count <= 0
    /\ args.world_size = 2
    /\ error[0] = "StatisticsError"
    /\ pc[1] = "done"

====
